---- MODULE Spec2Model ----
(***************************************************************************)
(* Model of app.py, the Streamlit Bronze -> Silver -> Gold pipeline.       *)
(*                                                                         *)
(* Text is a sequence of characters.  A character is a one-letter string,  *)
(* or the code point name of a non-ASCII / invisible character:            *)
(*   "TAB"     U+0009, whitespace that is not ' '                          *)
(*   "U+00C9"  E with acute (upper case), "U+00E9" e with acute            *)
(*   "U+0301"  combining acute accent,    "U+0308" combining diaeresis     *)
(*   "U+00A8"  spacing diaeresis, whose NFKD form is ' ' + U+0308          *)
(* A header cell is [isStr, chars]: pandas headers read from a workbook    *)
(* may be numbers, for which isStr is FALSE.                               *)
(***************************************************************************)
EXTENDS Integers, Sequences, FiniteSets, TLC

\* ------------------------------------------------------------------
\* Bounds
\* ------------------------------------------------------------------
MaxNameLen == 3
MaxRows == 2

\* ------------------------------------------------------------------
\* Characters (str methods and unicodedata, as used by clean_column_name)
\* ------------------------------------------------------------------
UpperLetters == <<"A","B","C","D","E","F","G","H","I","J","K","L","M",
                  "N","O","P","Q","R","S","T","U","V","W","X","Y","Z">>

LowerLetters == <<"a","b","c","d","e","f","g","h","i","j","k","l","m",
                  "n","o","p","q","r","s","t","u","v","w","x","y","z">>

Digits == {"0","1","2","3","4","5","6","7","8","9"}

Range(s) == {s[i] : i \in DOMAIN s}

\* str.isspace for one character
IsSpace(ch) == ch \in {" ", "TAB"}

\* unicodedata.combining(ch) # 0
IsCombining(ch) == ch \in {"U+0301", "U+0308"}

\* str.isalnum for one character (accented letters are alphanumeric)
IsAlnum(ch) == ch \in Range(UpperLetters) \cup Range(LowerLetters) \cup Digits
                      \cup {"U+00C9", "U+00E9"}

\* unicodedata.normalize('NFKD', ch) for one character
NFKDChar(ch) ==
  CASE ch = "U+00C9" -> <<"E", "U+0301">>
    [] ch = "U+00E9" -> <<"e", "U+0301">>
    [] ch = "U+00A8" -> <<" ", "U+0308">>
    [] OTHER -> <<ch>>

\* str.lower for one character
LowerChar(ch) ==
  IF ch = "U+00C9" THEN "U+00E9"
  ELSE IF \E i \in DOMAIN UpperLetters : UpperLetters[i] = ch
       THEN LowerLetters[CHOOSE i \in DOMAIN UpperLetters : UpperLetters[i] = ch]
       ELSE ch

RECURSIVE LStrip(_)
LStrip(s) == IF s # <<>> /\ IsSpace(Head(s)) THEN LStrip(Tail(s)) ELSE s

RECURSIVE RStrip(_)
RStrip(s) == IF s # <<>> /\ IsSpace(s[Len(s)])
             THEN RStrip(SubSeq(s, 1, Len(s) - 1)) ELSE s

\* a variant of str.strip that also strips underscores
StripUnderscoresToo(s) ==
  LET RECURSIVE L(_)
      L(t) == IF t # <<>> /\ (IsSpace(Head(t)) \/ Head(t) = "_") THEN L(Tail(t)) ELSE t
      RECURSIVE R(_)
      R(t) == IF t # <<>> /\ (IsSpace(t[Len(t)]) \/ t[Len(t)] = "_")
              THEN R(SubSeq(t, 1, Len(t) - 1)) ELSE t
  IN R(L(s))

\* str.strip()
Strip(s) == RStrip(LStrip(s))

RECURSIVE NFKD(_)
NFKD(s) == IF s = <<>> THEN <<>> ELSE NFKDChar(Head(s)) \o NFKD(Tail(s))

DropCombining(s) == SelectSeq(s, LAMBDA ch : ~IsCombining(ch))

Lower(s) == [i \in DOMAIN s |-> LowerChar(s[i])]

\* str.replace(' ', '_')
ReplaceSpaces(s) == [i \in DOMAIN s |-> IF s[i] = " " THEN "_" ELSE s[i]]

KeepAlnumUnderscoreHyphen(s) ==
  SelectSeq(s, LAMBDA ch : IsAlnum(ch) \/ ch \in {"_", "-"})

\* clean_column_name(col, keep_accents).  A header that is not a str has
\* no .strip(): the call raises AttributeError (ok = FALSE).
clean_column_name(col, keep_accents) ==
  IF ~col.isStr THEN [ok |-> FALSE, val |-> <<>>]
  ELSE LET c1 == Strip(col.chars)
           c2 == IF ~keep_accents THEN DropCombining(NFKD(c1)) ELSE c1
           c3 == ReplaceSpaces(Lower(c2))
       IN [ok |-> TRUE, val |-> KeepAlnumUnderscoreHyphen(c3)]

Str(s) == [isStr |-> TRUE, chars |-> s]

\* The list comprehension of clean_columns over the column labels: it
\* raises as soon as one label raises.
CleanLabels(cols, keep_accents) ==
  IF \E i \in DOMAIN cols : ~clean_column_name(cols[i], keep_accents).ok
  THEN [ok |-> FALSE, val |-> <<>>]
  ELSE [ok |-> TRUE,
        val |-> [i \in DOMAIN cols |-> Str(clean_column_name(cols[i], keep_accents).val)]]


\* ------------------------------------------------------------------
\* Text constants (spelled as character sequences)
\* ------------------------------------------------------------------
HdrEndpointName == <<"E","n","d","p","o","i","n","t"," ","N","a","m","e">>
HdrEndpointAlias == <<"E","n","d","p","o","i","n","t"," ","A","l","i","a","s">>
HdrLastSeen == <<"L","a","s","t"," ","S","e","e","n">>
ColEndpointName == <<"e","n","d","p","o","i","n","t","_","n","a","m","e">>
ColEndpointAlias == <<"e","n","d","p","o","i","n","t","_","a","l","i","a","s">>
ColLastSeen == <<"l","a","s","t","_","s","e","e","n">>
ColLastSeenPadded == <<" ">> \o ColLastSeen
ColUnknown == <<"z","z">>
Comma == <<",">>
TxtH1 == <<"h","1">>
TxtA1 == <<"a","1">>
TxtA1Padded == <<"a","1"," ">>
TxtMar == <<"2","0","2","4","-","0","3","-","0","1">>
TxtJun == <<"2","0","2","4","-","0","6","-","0","1">>
TxtX == <<"x">>
FmtIso == <<"%","Y","-","%","m","-","%","d">>
FmtBad == <<"%","Q">>

\* ------------------------------------------------------------------
\* Cells and frames
\*   cell  : [k, s, t]   k = "str" (text s), "ts" (timestamp t = yyyymmdd)
\*                        or "na" (NaN / <NA> / NaT)
\*   frame : [cols, dtypes, rows], rows a sequence of sequences of cells
\* ------------------------------------------------------------------
NA == [k |-> "na", s |-> <<>>, t |-> 0]

Text(chars) == [k |-> "str", s |-> chars, t |-> 0]

Ts(n) == [k |-> "ts", s |-> <<>>, t |-> n]

IsNA(c) == c.k = "na"

HasCol(df, name) == \E i \in DOMAIN df.cols : df.cols[i] = Str(name)

ColIdx(df, name) == CHOOSE i \in DOMAIN df.cols : df.cols[i] = Str(name)

Column(df, j) == [i \in DOMAIN df.rows |-> df.rows[i][j]]

\* df[name] = cells, with the dtype of the new values
SetColumn(df, j, cells, dtype) ==
  [df EXCEPT !.dtypes[j] = dtype,
             !.rows = [i \in DOMAIN df.rows |-> [df.rows[i] EXCEPT ![j] = cells[i]]]]

\* the rows of a sequence picked by a boolean mask, in order
RECURSIVE MaskRows(_, _)
MaskRows(rows, mask) ==
  IF rows = <<>> THEN <<>>
  ELSE (IF Head(mask) THEN <<Head(rows)>> ELSE <<>>) \o MaskRows(Tail(rows), Tail(mask))

\* dtype pandas infers for a column of text / missing cells when reading
ReadDtype(cells) ==
  IF cells # <<>> /\ \A i \in DOMAIN cells : IsNA(cells[i]) THEN "float64" ELSE "object"

MakeFrame(header, rows) ==
  [cols |-> header,
   dtypes |-> [j \in DOMAIN header |-> ReadDtype([i \in DOMAIN rows |-> rows[i][j]])],
   rows |-> rows]

\* ------------------------------------------------------------------
\* pd.to_datetime
\* ------------------------------------------------------------------
DigitChars == <<"0","1","2","3","4","5","6","7","8","9">>

DigitVal(ch) == (CHOOSE i \in DOMAIN DigitChars : DigitChars[i] = ch) - 1

\* the directives strptime knows; any other letter after % is an error
Directives == {"a","A","b","B","c","d","f","G","H","I","j","m","M","p","S",
               "u","U","V","w","W","x","X","y","Y","z","Z","%"}

\* "'Q' is a bad directive in format" / "stray % in format": raised when
\* the format is compiled, whatever errors= says
RECURSIVE BadFormat(_)
BadFormat(fmt) ==
  IF fmt = <<>> THEN FALSE
  ELSE IF Head(fmt) # "%" THEN BadFormat(Tail(fmt))
  ELSE IF Len(fmt) < 2 \/ fmt[2] \notin Directives THEN TRUE
  ELSE BadFormat(SubSeq(fmt, 3, Len(fmt)))

Failed == [ok |-> FALSE, y |-> 0, m |-> 0, d |-> 0]

\* Match text s against format fmt (directives %Y, %m, %d and literals);
\* acc carries the fields read so far.
RECURSIVE Strptime(_, _, _)
Strptime(fmt, s, acc) ==
  IF fmt = <<>> THEN (IF s = <<>> THEN acc ELSE Failed)
  ELSE IF Head(fmt) = "%" /\ Len(fmt) >= 2
  THEN LET dir == fmt[2]
           rest == SubSeq(fmt, 3, Len(fmt))
           nd == IF dir = "Y" THEN 4
                 ELSE IF Len(s) >= 2 /\ s[1] \in Digits /\ s[2] \in Digits THEN 2 ELSE 1
       IN IF dir \notin {"Y", "m", "d"} THEN Failed
          ELSE IF Len(s) < nd \/ \E i \in 1..nd : s[i] \notin Digits THEN Failed
          ELSE LET RECURSIVE Num(_, _)
                   Num(i, v) == IF i > nd THEN v ELSE Num(i + 1, 10 * v + DigitVal(s[i]))
                   n == Num(1, 0)
                   a == IF dir = "Y" THEN [acc EXCEPT !.y = n]
                        ELSE IF dir = "m" THEN [acc EXCEPT !.m = n]
                        ELSE [acc EXCEPT !.d = n]
               IN Strptime(rest, SubSeq(s, nd + 1, Len(s)), a)
  ELSE IF s # <<>> /\ Head(s) = Head(fmt) THEN Strptime(Tail(fmt), Tail(s), acc)
  ELSE Failed

\* one value under errors="coerce": a timestamp, or NaT
ParseValue(c, fmt) ==
  IF c.k = "ts" THEN c
  ELSE IF c.k = "na" THEN NA
  ELSE LET r == Strptime(fmt, c.s, [ok |-> TRUE, y |-> 0, m |-> 1, d |-> 1])
       IN IF r.ok /\ r.m \in 1..12 /\ r.d \in 1..31
          THEN Ts(r.y * 10000 + r.m * 100 + r.d) ELSE NA

\* pd.to_datetime(..., errors="ignore"): when a value cannot be parsed the
\* input comes back unchanged
ToDatetimeErrorsIgnore(cells, fmt) ==
  IF BadFormat(fmt) THEN [ok |-> FALSE, cells |-> cells]
  ELSE IF \E i \in DOMAIN cells : cells[i].k = "str" /\ IsNA(ParseValue(cells[i], fmt))
  THEN [ok |-> TRUE, cells |-> cells]
  ELSE [ok |-> TRUE, cells |-> [i \in DOMAIN cells |-> ParseValue(cells[i], fmt)]]

\* pd.to_datetime(cells, format=fmt, errors="coerce")
ToDatetimeCoerce(cells, fmt) ==
  IF BadFormat(fmt) THEN [ok |-> FALSE, cells |-> cells]
  ELSE [ok |-> TRUE, cells |-> [i \in DOMAIN cells |-> ParseValue(cells[i], fmt)]]

\* parse_date_series(s, fmt, dayfirst, infer).  Without a format pandas
\* recognises ISO 8601 dates, on which dayfirst and infer have no effect.
parse_date_series(cells, fmt, dayfirst, infer) ==
  IF fmt # <<>> THEN ToDatetimeCoerce(cells, fmt)
  ELSE ToDatetimeCoerce(cells, FmtIso)


\* ------------------------------------------------------------------
\* Objects.  A DataFrame variable holds a reference (0 is None) into
\* heap, so that a copy and an alias are different things.
\* ------------------------------------------------------------------
None == 0

Fresh(hp) == CHOOSE n \in 1..(Cardinality(DOMAIN hp) + 1) :
               n \notin DOMAIN hp /\ \A m \in 1..(n - 1) : m \in DOMAIN hp

\* a new DataFrame object holding df
DfNew(hp, df) == [ref |-> Fresh(hp), heap |-> hp @@ (Fresh(hp) :> df)]

\* an assignment without .copy(): the same object under another name
DfCopyAlias(hp, r) == [ref |-> r, heap |-> hp]

\* DataFrame.copy()
DfCopy(hp, r) == DfNew(hp, hp[r])

\* objects no variable refers to are dropped
Gc(hp, refs) == [r \in (refs \ {None}) |-> hp[r]]

\* clean_columns(df, keep_accents): a copy of df with cleaned labels
clean_columns(hp, df, keep_accents) ==
  LET c == DfCopy(hp, df)
      labels == CleanLabels(hp[df].cols, keep_accents)
  IN IF labels.ok
     THEN [ok |-> TRUE, ref |-> c.ref, heap |-> [c.heap EXCEPT ![c.ref].cols = labels.val]]
     ELSE [ok |-> FALSE, ref |-> None, heap |-> c.heap]

\* ------------------------------------------------------------------
\* Uploaded files, as pandas reads them
\* ------------------------------------------------------------------
KeyHeader == <<Str(HdrEndpointName), Str(HdrEndpointAlias), Str(HdrLastSeen)>>

KeyRows == {<<n, a, d>> : n \in {Text(TxtH1)},
                          a \in {Text(TxtA1Padded)},
                          d \in {Text(TxtJun), Text(TxtX), NA}}

\* a workbook whose first header cell is the number 5
NumHeader == <<[isStr |-> FALSE, chars |-> <<"5">>], Str(HdrLastSeen)>>

NumRows == {<<Text(TxtH1), Text(TxtJun)>>}

RowSeqs(S) == UNION {[1..n -> S] : n \in 0..MaxRows}

BronzeFrames == {MakeFrame(KeyHeader, rows) : rows \in RowSeqs(KeyRows)}
                \cup {MakeFrame(NumHeader, rows) : rows \in RowSeqs(NumRows)}

\* ------------------------------------------------------------------
\* Widget values
\* ------------------------------------------------------------------
DateColInputs == {<<>>, ColLastSeen, ColLastSeenPadded}

DateFmtInputs == {<<>>, FmtIso, FmtBad}

ColumnListInputs == {<<>>, ColUnknown, ColUnknown \o Comma \o ColLastSeenPadded}

DateBoundInputs == {<<>>, TxtMar}

\* ------------------------------------------------------------------
\* State
\* ------------------------------------------------------------------
VARIABLES
  pc,          \* position of the script run; "idle" between runs
  heap,        \* DataFrame objects
  bronze_df,   \* script variable bronze_df
  silver,      \* script variable silver (inside tab_silver)
  gold,        \* script variable gold (inside tab_gold)
  ss_silver,   \* st.session_state["silver_df"]
  ss_gold,     \* st.session_state["gold_df"]
  date_col,    \* widget value read by both tab_silver and tab_gold
  w,           \* the widget values read by the step just taken
  run,         \* what the current run has done so far
  nm_pc, nm_cols, nm_keep, nm_once, nm_twice   \* normalizer harness

pvars == <<pc, heap, bronze_df, silver, gold, ss_silver, ss_gold, date_col, w, run>>
nvars == <<nm_pc, nm_cols, nm_keep, nm_once, nm_twice>>
vars == <<pc, heap, bronze_df, silver, gold, ss_silver, ss_gold, date_col, w, run,
          nm_pc, nm_cols, nm_keep, nm_once, nm_twice>>

NoWidgets == [keep_accents |-> FALSE, strip_strings |-> FALSE, date_fmt |-> <<>>,
              gold_choose_cols |-> <<>>, gold_drop_dupes |-> FALSE,
              gold_dropna_subset |-> <<>>, gold_date_filter_on |-> FALSE,
              gold_date_start |-> <<>>, gold_date_end |-> <<>>]

NewRun == [silver_stored |-> FALSE,
           gold_stored |-> FALSE, dedup |-> FALSE, coerced |-> FALSE,
           warnings |-> {}, crashed |-> FALSE]

NoLabels == [ok |-> TRUE, val |-> <<>>]

Init ==
  /\ pc = "idle"
  /\ heap = <<>>
  /\ bronze_df = None /\ silver = None /\ gold = None
  /\ ss_silver = None /\ ss_gold = None
  /\ date_col = <<>>
  /\ w = NoWidgets
  /\ run = NewRun
  /\ nm_pc = "start" /\ nm_cols = <<>> /\ nm_keep = FALSE
  /\ nm_once = NoLabels /\ nm_twice = NoLabels

\* ------------------------------------------------------------------
\* A script run.  Every user interaction reruns the whole script; only
\* st.session_state survives from one run to the next.
\* ------------------------------------------------------------------

\* Sidebar and Bronze read, a file is uploaded and pandas reads it.
\* In the model a browser session uploads a file while it holds no Silver
\* yet; the later runs of the session change widgets, remove the file or
\* fail to read it.
UploadAndRead ==
  /\ pc = "idle"
  /\ ss_silver = None
  /\ \E df \in BronzeFrames, dc \in DateColInputs :
       LET b == DfNew(Gc(heap, {ss_silver, ss_gold}), df)
       IN /\ heap' = b.heap
          /\ bronze_df' = b.ref
          /\ date_col' = dc
  /\ run' = NewRun
  /\ pc' = "silver_clean"
  /\ w' = NoWidgets
  /\ UNCHANGED <<silver, gold, ss_silver, ss_gold, nvars>>

\* Sidebar and Bronze read, the read raises: st.error, bronze_df stays None.
\* tab_silver then only shows "Faca o upload primeiro".
UploadReadError ==
  /\ pc = "idle"
  /\ \E dc \in DateColInputs : date_col' = dc
  /\ heap' = Gc(heap, {ss_silver, ss_gold})
  /\ bronze_df' = None
  /\ run' = NewRun
  /\ pc' = "gold_load"
  /\ w' = NoWidgets
  /\ UNCHANGED <<silver, gold, ss_silver, ss_gold, nvars>>

\* Sidebar with no file in the uploader: bronze_df stays None.
NoUpload ==
  /\ pc = "idle"
  /\ \E dc \in DateColInputs : date_col' = dc
  /\ heap' = Gc(heap, {ss_silver, ss_gold})
  /\ bronze_df' = None
  /\ run' = NewRun
  /\ pc' = "gold_load"
  /\ w' = NoWidgets
  /\ UNCHANGED <<silver, gold, ss_silver, ss_gold, nvars>>

\* tab_silver, steps 0 and 1: silver = bronze_df.copy(); clean_columns
SilverClean ==
  /\ pc = "silver_clean"
  /\ \E keep_accents \in BOOLEAN :
       LET c == DfCopy(heap, bronze_df)
           r == clean_columns(c.heap, c.ref, keep_accents)
       IN /\ r.ok
          /\ silver' = r.ref
          /\ heap' = Gc(r.heap, {bronze_df, r.ref, ss_silver, ss_gold})
          /\ w' = [NoWidgets EXCEPT !.keep_accents = keep_accents]
  /\ pc' = "silver_strip"
  /\ UNCHANGED <<bronze_df, gold, ss_silver, ss_gold, date_col, run, nvars>>

\* clean_columns raises (a header that is not a str): nothing catches it,
\* Streamlit shows the exception and the rest of the script does not run.
SilverCleanRaises ==
  /\ pc = "silver_clean"
  /\ \E keep_accents \in BOOLEAN :
       LET c == DfCopy(heap, bronze_df)
           r == clean_columns(c.heap, c.ref, keep_accents)
       IN /\ ~r.ok
          /\ w' = [NoWidgets EXCEPT !.keep_accents = keep_accents]
  /\ heap' = Gc(heap, {ss_silver, ss_gold})
  /\ bronze_df' = None /\ silver' = None
  /\ run' = [run EXCEPT !.crashed = TRUE]
  /\ pc' = "idle"
  /\ UNCHANGED <<gold, ss_silver, ss_gold, date_col, nvars>>

\* the loop over select_dtypes(include=["object", "string"])
StripStrings(df) ==
  [df EXCEPT
     !.dtypes = [j \in DOMAIN df.cols |->
                   IF df.dtypes[j] \in {"object", "string"} THEN "string" ELSE df.dtypes[j]],
     !.rows = [i \in DOMAIN df.rows |-> [j \in DOMAIN df.cols |->
                   IF df.dtypes[j] \in {"object", "string"} /\ df.rows[i][j].k = "str"
                   THEN Text(Strip(df.rows[i][j].s)) ELSE df.rows[i][j]]]]

\* tab_silver, step 2
SilverStrip ==
  /\ pc = "silver_strip"
  /\ \E strip_strings \in BOOLEAN :
       /\ heap' = IF strip_strings THEN [heap EXCEPT ![silver] = StripStrings(heap[silver])]
                  ELSE heap
       /\ w' = [NoWidgets EXCEPT !.strip_strings = strip_strings]
  /\ pc' = "silver_dates"
  /\ UNCHANGED <<bronze_df, silver, gold, ss_silver, ss_gold, date_col, run, nvars>>

\* the body of step 3: the frame after the conversion, and whether the
\* except branch (st.warning) was taken
SilverDateStep(df, dc, fmt, dayfirst, infer) ==
  IF Strip(dc) # <<>> /\ HasCol(df, Strip(dc))
  THEN LET j == ColIdx(df, Strip(dc))
           p == parse_date_series(Column(df, j), Strip(fmt), dayfirst, infer)
       IN IF p.ok THEN [df |-> SetColumn(df, j, p.cells, "datetime64"), warned |-> FALSE]
          ELSE [df |-> df, warned |-> TRUE]
  ELSE [df |-> df, warned |-> FALSE]

\* tab_silver, step 3 and st.session_state["silver_df"] = silver
SilverDates ==
  /\ pc = "silver_dates"
  /\ \E date_fmt \in DateFmtInputs, dayfirst \in BOOLEAN, infer_dt \in BOOLEAN :
       LET r == SilverDateStep(heap[silver], date_col, date_fmt, dayfirst, infer_dt)
       IN /\ heap' = Gc([heap EXCEPT ![silver] = r.df], {bronze_df, silver, ss_gold})
          /\ run' = [run EXCEPT !.silver_stored = TRUE,
                                !.warnings = IF r.warned THEN @ \cup {"silver_date"} ELSE @]
          /\ w' = [NoWidgets EXCEPT !.date_fmt = date_fmt]
  /\ ss_silver' = silver
  /\ pc' = "gold_load"
  /\ UNCHANGED <<bronze_df, silver, gold, ss_gold, date_col, nvars>>


\* tab_gold when session_state has no "silver_df": "Gere a Silver primeiro".
\* The script run ends (the SQL and chart tabs change no table).
GoldSkip ==
  /\ pc = "gold_load"
  /\ ss_silver = None
  /\ heap' = Gc(heap, {ss_silver, ss_gold})
  /\ bronze_df' = None /\ silver' = None /\ gold' = None
  /\ pc' = "idle"
  /\ w' = NoWidgets
  /\ UNCHANGED <<ss_silver, ss_gold, date_col, run, nvars>>

\* silver = st.session_state.get("silver_df"); gold = silver.copy()
GoldLoad ==
  /\ pc = "gold_load"
  /\ ss_silver # None
  /\ silver' = ss_silver
  /\ LET c == DfCopy(heap, ss_silver)
     IN /\ gold' = c.ref
        /\ heap' = Gc(c.heap, {bronze_df, ss_silver, ss_gold, c.ref})
  /\ pc' = "gold_select"
  /\ w' = NoWidgets
  /\ UNCHANGED <<bronze_df, ss_silver, ss_gold, date_col, run, nvars>>

\* str.split(",")
RECURSIVE SplitComma(_)
SplitComma(s) ==
  IF \E i \in DOMAIN s : s[i] = ","
  THEN LET i == CHOOSE k \in DOMAIN s : s[k] = "," /\ \A m \in 1..(k - 1) : s[m] # ","
       IN <<SubSeq(s, 1, i - 1)>> \o SplitComma(SubSeq(s, i + 1, Len(s)))
  ELSE <<s>>

\* [c.strip() for c in raw.split(",") if c.strip()]
NameList(raw) ==
  LET parts == SplitComma(raw)
  IN SelectSeq([i \in DOMAIN parts |-> Strip(parts[i])], LAMBDA c : c # <<>>)

\* [c for c in names if c in gold.columns]
ValidNames(names, df) == SelectSeq(names, LAMBDA c : HasCol(df, c))

\* df[names] for names that are all columns of df
Project(df, names) ==
  [cols |-> [k \in DOMAIN names |-> Str(names[k])],
   dtypes |-> [k \in DOMAIN names |-> df.dtypes[ColIdx(df, names[k])]],
   rows |-> [i \in DOMAIN df.rows |->
               [k \in DOMAIN names |-> df.rows[i][ColIdx(df, names[k])]]]]

\* step 1 without "if keep_cols:": an empty selection is applied too
GoldChooseColsUnguarded(hp, g, raw) ==
  IF Strip(raw) # <<>>
  THEN DfNew(hp, Project(hp[g], ValidNames(NameList(raw), hp[g])))
  ELSE [ref |-> g, heap |-> hp]

\* tab_gold step 1
GoldChooseCols(hp, g, raw) ==
  IF Strip(raw) # <<>>
  THEN LET keep_cols == ValidNames(NameList(raw), hp[g])
       IN IF keep_cols # <<>> THEN DfNew(hp, Project(hp[g], keep_cols))
          ELSE [ref |-> g, heap |-> hp]
  ELSE [ref |-> g, heap |-> hp]

GoldSelect ==
  /\ pc = "gold_select"
  /\ \E gold_choose_cols \in ColumnListInputs :
       LET r == GoldChooseCols(heap, gold, gold_choose_cols)
       IN /\ gold' = r.ref
          /\ heap' = Gc(r.heap, {bronze_df, silver, ss_silver, ss_gold, r.ref})
          /\ w' = [NoWidgets EXCEPT !.gold_choose_cols = gold_choose_cols]
  /\ pc' = "gold_dedup"
  /\ UNCHANGED <<bronze_df, silver, ss_silver, ss_gold, date_col, run, nvars>>

\* DataFrame.drop_duplicates(): of rows equal in every column the first
\* is kept (missing values compare equal to each other)
drop_duplicates(df) ==
  [df EXCEPT !.rows = MaskRows(df.rows,
       [i \in DOMAIN df.rows |-> \A k \in 1..(i - 1) : df.rows[k] # df.rows[i]])]

\* tab_gold step 2
GoldDedup ==
  /\ pc = "gold_dedup"
  /\ \E gold_drop_dupes \in BOOLEAN :
       LET r == IF gold_drop_dupes THEN DfNew(heap, drop_duplicates(heap[gold]))
                ELSE [ref |-> gold, heap |-> heap]
       IN /\ gold' = r.ref
          /\ heap' = Gc(r.heap, {bronze_df, silver, ss_silver, ss_gold, r.ref})
          /\ w' = [NoWidgets EXCEPT !.gold_drop_dupes = gold_drop_dupes]
          /\ run' = [run EXCEPT !.dedup = gold_drop_dupes]
  /\ pc' = "gold_dropna"
  /\ UNCHANGED <<bronze_df, silver, ss_silver, ss_gold, date_col, nvars>>

\* DataFrame.dropna(subset=names)
dropna(df, names) ==
  [df EXCEPT !.rows = MaskRows(df.rows,
       [i \in DOMAIN df.rows |->
          \A k \in DOMAIN names : ~IsNA(df.rows[i][ColIdx(df, names[k])])])]

\* tab_gold step 3
GoldDropnaSubset(hp, g, raw) ==
  IF Strip(raw) # <<>>
  THEN LET subset_cols == ValidNames(NameList(raw), hp[g])
       IN IF subset_cols # <<>> THEN DfNew(hp, dropna(hp[g], subset_cols))
          ELSE [ref |-> g, heap |-> hp]
  ELSE [ref |-> g, heap |-> hp]

GoldDropna ==
  /\ pc = "gold_dropna"
  /\ \E gold_dropna_subset \in ColumnListInputs :
       LET r == GoldDropnaSubset(heap, gold, gold_dropna_subset)
       IN /\ gold' = r.ref
          /\ heap' = Gc(r.heap, {bronze_df, silver, ss_silver, ss_gold, r.ref})
          /\ w' = [NoWidgets EXCEPT !.gold_dropna_subset = gold_dropna_subset]
  /\ pc' = "gold_filter"
  /\ UNCHANGED <<bronze_df, silver, ss_silver, ss_gold, date_col, run, nvars>>

\* pd.to_datetime(text, errors="coerce") of one widget text
ToDatetimeScalar(txt) == ParseValue(Text(txt), FmtIso)

\* gold[name] >= bound (op = ">=") or gold[name] <= bound (op = "<=").
\* A datetime64 column compares value by value, NaT on either side giving
\* False.  A float64 column raises TypeError.  A "string" column raises
\* TypeError as soon as a text value meets the bound; when it holds no
\* text value (no rows, or only <NA>) the outcome depends on the pandas
\* version: lib is what the installed one does.
CompareColumn(df, j, op, bound, lib) ==
  IF df.dtypes[j] = "datetime64"
  THEN [ok |-> TRUE,
        mask |-> [i \in DOMAIN df.rows |->
                    /\ df.rows[i][j].k = "ts" /\ bound.k = "ts"
                    /\ IF op = ">=" THEN df.rows[i][j].t >= bound.t
                       ELSE df.rows[i][j].t <= bound.t]]
  ELSE IF \/ df.dtypes[j] # "string"
          \/ \E i \in DOMAIN df.rows : df.rows[i][j].k = "str"
          \/ lib = "raises"
  THEN [ok |-> FALSE, mask |-> <<>>]
  ELSE [ok |-> TRUE, mask |-> [i \in DOMAIN df.rows |-> FALSE]]

\* gold = gold[gold[date_col] <op> pd.to_datetime(txt.strip(), errors="coerce")]
FilterRows(hp, g, name, op, txt, lib) ==
  LET df == hp[g]
      c == CompareColumn(df, ColIdx(df, name), op, ToDatetimeScalar(Strip(txt)), lib)
  IN IF c.ok
     THEN LET n == DfNew(hp, [df EXCEPT !.rows = MaskRows(df.rows, c.mask)])
          IN [ok |-> TRUE, ref |-> n.ref, heap |-> n.heap]
     ELSE [ok |-> FALSE, ref |-> g, heap |-> hp]

\* tab_gold step 4, the try block; warned is the except branch.  The
\* guard looks up date_col.strip(), the body looks up date_col as typed.
GoldDateStep(hp, g, dc, filter_on, start, end, lib) ==
  IF ~(filter_on /\ Strip(dc) # <<>> /\ HasCol(hp[g], Strip(dc)))
  THEN [ref |-> g, heap |-> hp, warned |-> FALSE, coerced |-> FALSE]
  ELSE IF ~HasCol(hp[g], dc)
  THEN [ref |-> g, heap |-> hp, warned |-> TRUE, coerced |-> FALSE]    \* KeyError
  ELSE
    LET j == ColIdx(hp[g], dc)
        isobj == hp[g].dtypes[j] = "object"
        h1 == IF isobj
              THEN [hp EXCEPT ![g] = SetColumn(hp[g], j,
                       ToDatetimeCoerce(Column(hp[g], j), FmtIso).cells, "datetime64")]
              ELSE hp
        s == IF Strip(start) # <<>> THEN FilterRows(h1, g, dc, ">=", start, lib)
             ELSE [ok |-> TRUE, ref |-> g, heap |-> h1]
        e == IF s.ok /\ Strip(end) # <<>> THEN FilterRows(s.heap, s.ref, dc, "<=", end, lib)
             ELSE s
    IN [ref |-> e.ref, heap |-> e.heap, warned |-> ~e.ok, coerced |-> isobj]

\* tab_gold step 4, display / download and st.session_state["gold_df"] = gold.
\* The script run ends (the SQL and chart tabs change no table).
GoldDateFilter ==
  /\ pc = "gold_filter"
  /\ \E filter_on \in BOOLEAN, start \in DateBoundInputs, end \in DateBoundInputs,
        lib \in {"raises", "all_false"} :
       LET r == GoldDateStep(heap, gold, date_col, filter_on, start, end, lib)
           entered == filter_on /\ Strip(date_col) # <<>> /\ HasCol(heap[gold], Strip(date_col))
       IN /\ ~entered => (start = <<>> /\ end = <<>>)    \* the bounds play no part
          /\ ss_gold' = r.ref
          /\ heap' = Gc(r.heap, {ss_silver, r.ref})
          /\ run' = [run EXCEPT !.gold_stored = TRUE, !.coerced = r.coerced,
                                !.warnings = IF r.warned THEN @ \cup {"gold_filter"} ELSE @]
          /\ w' = [NoWidgets EXCEPT !.gold_date_filter_on = filter_on,
                                    !.gold_date_start = start, !.gold_date_end = end]
  /\ bronze_df' = None /\ silver' = None /\ gold' = None
  /\ pc' = "idle"
  /\ UNCHANGED <<ss_silver, date_col, nvars>>

Next ==
  \/ UploadAndRead
  \/ UploadReadError
  \/ NoUpload
  \/ SilverClean
  \/ SilverCleanRaises
  \/ SilverStrip
  \/ SilverDates
  \/ GoldSkip
  \/ GoldLoad
  \/ GoldSelect
  \/ GoldDedup
  \/ GoldDropna
  \/ GoldDateFilter

Spec == Init /\ [][Next]_vars

\* ------------------------------------------------------------------
\* The column normalizer on its own: clean_columns applied to a frame
\* with arbitrary labels, then applied again to its result.
\* ------------------------------------------------------------------
NameAlphabet == {"A", "b", "1", " ", "TAB", "_", "-", ".",
                 "U+00C9", "U+00E9", "U+00A8", "U+0301"}

Names == UNION {[1..n -> NameAlphabet] : n \in 0..MaxNameLen}

NumberLabel == [isStr |-> FALSE, chars |-> <<"5">>]

LabelLists == {<<c>> : c \in {Str(s) : s \in Names} \cup {NumberLabel}}
              \cup {<<Str(s), Str(HdrLastSeen)>> : s \in Names}

\* the labels of clean_columns(df) for a frame df with the given labels
CleanedLabels(labels, keep_accents) ==
  LET f == DfNew(<<>>, MakeFrame(labels, <<>>))
      r == clean_columns(f.heap, f.ref, keep_accents)
  IN IF r.ok THEN [ok |-> TRUE, val |-> r.heap[r.ref].cols]
     ELSE [ok |-> FALSE, val |-> <<>>]

NormCleanOnce ==
  /\ nm_pc = "start"
  /\ \E labels \in LabelLists, keep_accents \in BOOLEAN :
       /\ nm_cols' = labels
       /\ nm_keep' = keep_accents
       /\ nm_once' = CleanedLabels(labels, keep_accents)
  /\ nm_pc' = "once"
  /\ UNCHANGED <<nm_twice, pvars>>

NormCleanTwice ==
  /\ nm_pc = "once"
  /\ nm_once.ok
  /\ nm_twice' = CleanedLabels(nm_once.val, nm_keep)
  /\ nm_pc' = "twice"
  /\ UNCHANGED <<nm_cols, nm_keep, nm_once, pvars>>

NextNorm == NormCleanOnce \/ NormCleanTwice

SpecNorm == Init /\ [][NextNorm]_vars

\* ------------------------------------------------------------------
\* Properties
\* ------------------------------------------------------------------
TypeOK == pc \in {"idle", "silver_clean", "silver_strip", "silver_dates", "gold_load",
                  "gold_select", "gold_dedup", "gold_dropna", "gold_filter"}

WellFormedName(s) ==
  /\ \A i \in DOMAIN s : s[i] \in Range(LowerLetters) \cup Digits \cup {"_"}
  /\ s # <<>> => (s[1] # "_" /\ s[Len(s)] # "_")
  /\ \A i \in 1..(Len(s) - 1) : ~(s[i] = "_" /\ s[i+1] = "_")

\* C3: every name the normalizer returns contains only [a-z0-9_], with no
\* leading, trailing or doubled underscore.
C3_CanonicalOutput ==
  (nm_pc = "once" /\ nm_once.ok) =>
     \A i \in DOMAIN nm_once.val : WellFormedName(nm_once.val[i].chars)

\* C4: normalizing twice gives the same names as normalizing once, for
\* every label list and either keep_accents setting.
C4_Idempotent == nm_pc = "twice" => nm_twice = nm_once

\* a label the first pass rewrote to a non-empty name has been normalized again
C4_Witness ==
  /\ nm_pc = "twice"
  /\ \E i \in DOMAIN nm_cols :
       nm_once.val[i] # nm_cols[i] /\ nm_once.val[i].chars # <<>>

SymbolOnly(s) == \A i \in DOMAIN s : ~IsAlnum(s[i])

\* C5: the normalizer never raises, also for a label that is not a string,
\* and maps an empty or symbol-only label to the empty string.
C5_TotalAndEmptyOnSymbols ==
  nm_pc = "once" =>
     /\ nm_once.ok
     /\ \A i \in DOMAIN nm_cols :
          (nm_cols[i].isStr /\ SymbolOnly(nm_cols[i].chars)) => nm_once.val[i].chars = <<>>

NoTwoRowsEqual(df) ==
  \A i, k \in DOMAIN df.rows : i # k => df.rows[i] # df.rows[k]

Cell(df, i, name) == df.rows[i][ColIdx(df, name)]

\* C1: after the duplicate removal of a Gold table that has the identity
\* columns endpoint_name and endpoint_alias, no two rows share an identity,
\* and every Silver row is represented by a row of its identity whose
\* last_seen is at least as recent.
C1_OneRowPerIdentity ==
  LET g == heap[gold]
      s == heap[ss_silver]
      recent(df, i) == IF Cell(df, i, ColLastSeen).k = "ts"
                       THEN Cell(df, i, ColLastSeen).t ELSE 0
  IN (pc = "gold_dropna" /\ run.dedup
        /\ HasCol(g, ColEndpointName) /\ HasCol(g, ColEndpointAlias)) =>
       /\ \A i, k \in DOMAIN g.rows :
            (/\ Cell(g, i, ColEndpointName) = Cell(g, k, ColEndpointName)
             /\ Cell(g, i, ColEndpointAlias) = Cell(g, k, ColEndpointAlias)) => i = k
       /\ HasCol(g, ColLastSeen) =>
            \A i \in DOMAIN s.rows : \E k \in DOMAIN g.rows :
               /\ Cell(g, k, ColEndpointName) = Cell(s, i, ColEndpointName)
               /\ Cell(g, k, ColEndpointAlias) = Cell(s, i, ColEndpointAlias)
               /\ recent(g, k) >= recent(s, i)

\* C2: with "remove duplicates" enabled, the Gold table a run stores in
\* session state has no two rows that are equal in every column.
C2_StoredGoldHasNoEqualRows ==
  (pc = "idle" /\ run.gold_stored /\ run.dedup) => NoTwoRowsEqual(heap[ss_gold])

\* what the date conversion makes of the cells of the model's files
ExpectedDate(c) == IF c = Text(TxtJun) THEN Ts(20240601) ELSE NA

\* the step of tab_silver that converts the chosen date column
DateStepTaken ==
  pc = "silver_dates" /\ Strip(date_col) # <<>> /\ HasCol(heap[silver], Strip(date_col))

\* the step keeps every Bronze row, in order, and every other column
DateStepKeepsTheRest ==
  LET pre == heap[silver]
      post == heap'[silver]
      j == ColIdx(pre, Strip(date_col))
  IN /\ silver' = silver /\ ss_silver' = silver
     /\ Len(post.rows) = Len(heap[bronze_df].rows)
     /\ post.cols = pre.cols
     /\ \A i \in DOMAIN post.rows : \A k \in DOMAIN post.cols :
          k # j => (post.rows[i][k] = pre.rows[i][k] /\ post.dtypes[k] = pre.dtypes[k])

DateColumnCoerced ==
  LET pre == heap[silver]
      post == heap'[silver]
      j == ColIdx(pre, Strip(date_col))
  IN /\ post.dtypes[j] = "datetime64"
     /\ \A i \in DOMAIN post.rows : post.rows[i][j] = ExpectedDate(pre.rows[i][j])

DateColumnKept ==
  LET pre == heap[silver]
      post == heap'[silver]
      j == ColIdx(pre, Strip(date_col))
  IN /\ post.dtypes[j] = pre.dtypes[j]
     /\ \A i \in DOMAIN post.rows : post.rows[i][j] = pre.rows[i][j]

\* C6 as stated: the Silver date conversion keeps every Bronze row in
\* order, leaves the other columns alone and turns each value of the date
\* column into its timestamp, or into an absent value when it cannot be
\* parsed or is empty, whatever the format setting.
C6_DateCoercionAlwaysCoerces ==
  [][DateStepTaken => (DateStepKeepsTheRest /\ DateColumnCoerced)]_vars

\* C6 amended: the Silver date conversion keeps every Bronze row in order
\* and leaves the other columns alone; when the conversion call raises, a
\* warning is shown and the date column is left as it was; otherwise each
\* value becomes its timestamp, or absent when it cannot be parsed or is
\* empty.
C6_DateCoercionUnlessRaised ==
  [][DateStepTaken =>
       /\ DateStepKeepsTheRest
       /\ IF "silver_date" \in run'.warnings THEN DateColumnKept ELSE DateColumnCoerced]_vars

\* a stored Silver whose date column was converted without a warning: an
\* unparsable Bronze value is absent and a parsable one is a timestamp
C6_Witness ==
  /\ pc = "gold_load" /\ run.silver_stored /\ run.warnings = {}
  /\ HasCol(heap[ss_silver], ColLastSeen)
  /\ \E i, k \in DOMAIN heap[bronze_df].rows :
       /\ heap[bronze_df].rows[i][3] = Text(TxtX)
       /\ Cell(heap[ss_silver], i, ColLastSeen) = NA
       /\ heap[bronze_df].rows[k][3] = Text(TxtJun)
       /\ Cell(heap[ss_silver], k, ColLastSeen) = Ts(20240601)

SuppliedNames(raw) == {Strip(p) : p \in Range(SplitComma(raw))} \ {<<>>}

NoErrorOrWarning == run'.warnings = run.warnings /\ ~run'.crashed

\* C7: the Gold column selection and the Gold NA-subset use only the
\* supplied names that are columns of the table, raise no error and show
\* no warning for the others, and leave the table untouched when no
\* supplied name is a column.
C7_NamesValidated ==
  [][/\ pc = "gold_select" =>
          LET pre == heap[gold]
              post == heap'[gold']
              valid == {c \in SuppliedNames(w'.gold_choose_cols) : HasCol(pre, c)}
          IN /\ pc' = "gold_dedup" /\ NoErrorOrWarning
             /\ valid = {} => (gold' = gold /\ post = pre)
             /\ valid # {} =>
                  /\ Range(post.cols) = {Str(c) : c \in valid}
                  /\ Len(post.rows) = Len(pre.rows)
                  /\ \A i \in DOMAIN post.rows : \A c \in valid :
                       Cell(post, i, c) = Cell(pre, i, c)
     /\ pc = "gold_dropna" =>
          LET pre == heap[gold]
              post == heap'[gold']
              valid == {c \in SuppliedNames(w'.gold_dropna_subset) : HasCol(pre, c)}
          IN /\ pc' = "gold_filter" /\ NoErrorOrWarning
             /\ valid = {} => (gold' = gold /\ post = pre)
             /\ post.cols = pre.cols
             /\ post.rows = SelectSeq(pre.rows,
                  LAMBDA r : \A c \in valid : ~IsNA(r[ColIdx(pre, c)]))]_vars

\* a selection that named an unknown column and a real one kept the real one
C7_Witness ==
  /\ pc = "gold_dedup"
  /\ w.gold_choose_cols = ColUnknown \o Comma \o ColLastSeenPadded
  /\ heap[gold].cols = <<Str(ColLastSeen)>>
  /\ Len(heap[ss_silver].cols) = 3
  /\ heap[gold].rows # <<>>

GoldPcs == {"gold_select", "gold_dedup", "gold_dropna", "gold_filter"}

\* C8: no step of a run changes the Bronze frame it read, and no step of
\* tab_gold changes the Silver frame held in session state.
C8_InputsNotMutated ==
  [][/\ (bronze_df # None /\ bronze_df' = bronze_df) => heap'[bronze_df] = heap[bronze_df]
     /\ (pc \in GoldPcs \cup {"gold_load"} /\ ss_silver # None) =>
          (ss_silver' = ss_silver /\ heap'[ss_silver] = heap[ss_silver])]_vars

\* a run whose Gold date column was converted in place while the Silver in
\* session state still holds the text
C8_Witness ==
  /\ pc = "idle" /\ run.gold_stored /\ run.coerced
  /\ HasCol(heap[ss_gold], ColLastSeen) /\ HasCol(heap[ss_silver], ColLastSeen)
  /\ heap[ss_silver].dtypes[ColIdx(heap[ss_silver], ColLastSeen)] = "object"
  /\ heap[ss_gold].dtypes[ColIdx(heap[ss_gold], ColLastSeen)] = "datetime64"
  /\ \E i \in DOMAIN heap[ss_silver].rows : Cell(heap[ss_silver], i, ColLastSeen).k = "str"

\* C9: a run that stores a Gold table computed it from a Silver table that
\* the same run computed and stored.
C9_GoldFromThisRunsSilver ==
  (pc = "idle" /\ run.gold_stored) => run.silver_stored

\* C10, for a Gold whose date column already holds timestamps: with the
\* date filter enabled, the trimmed date column present in Gold and a bound
\* given, every row of the resulting Gold has a date within the bounds; and
\* a failing filter step only warns and keeps the rows.
C10_DateFilterApplied ==
  [][(/\ pc = "gold_filter"
      /\ w'.gold_date_filter_on
      /\ Strip(date_col) # <<>> /\ HasCol(heap[gold], Strip(date_col))
      /\ heap[gold].dtypes[ColIdx(heap[gold], Strip(date_col))] = "datetime64"
      /\ (Strip(w'.gold_date_start) # <<>> \/ Strip(w'.gold_date_end) # <<>>)) =>
        LET pre == heap[gold]
            post == heap'[ss_gold']
            lo == w'.gold_date_start
            hi == w'.gold_date_end
        IN /\ \A i \in DOMAIN post.rows :
                LET d == Cell(post, i, Strip(date_col))
                IN /\ d.k = "ts"
                   /\ Strip(lo) = TxtMar => d.t >= 20240301
                   /\ Strip(hi) = TxtMar => d.t <= 20240301
           /\ "gold_filter" \in run'.warnings => post.rows = pre.rows]_vars

====
